---- MODULE Spec2Model ----
(***************************************************************************)
(* Scheduling and playback orchestration of nb981010/bilalapp              *)
(* (src/server.py): the /api/play trigger (play_audio), its monitor thread *)
(* (monitor_playback), the played ledger (play_history), the scheduler's   *)
(* job installation (schedule_prayers_for_date) and the leader lock        *)
(* (_try_start_scheduler_with_lock).                                       *)
(*                                                                         *)
(* Time is counted in minutes since 00:00 of day 0.  The specifications    *)
(* share the variables:                                                    *)
(*   Spec         play_audio as written, from the lock check through the   *)
(*                cloud/local control step, with the ledger endpoints;     *)
(*   SpecSession  the direct speaker-control path of play_audio (lines     *)
(*                1119-1231) and monitor_playback, one session after the   *)
(*                other, the speakers answering anything they can;         *)
(*   SpecDirect   the same path with requests and monitors overlapping     *)
(*                (the threaded server of app.run), the speakers answering *)
(*                from a smaller set;                                      *)
(*   SpecSched    schedule_prayers_for_date and the job store;             *)
(*   SpecLeader   worker processes running _try_start_scheduler_with_lock. *)
(***************************************************************************)
EXTENDS Integers, Sequences, FiniteSets, TLC

VARIABLES
  AZAN_LOCK,        \* server.py:131 module global
  AZAN_STARTED,     \* server.py:132 module global
  PLAYBACK_ACTIVE,  \* server.py:130 module global
  SONOS_SNAPSHOT,   \* server.py:129 module global: uid -> snapshot
  play_history,     \* rows of table play_history, oldest first
  now,              \* wall clock, minutes since day 0 00:00
  req,              \* one record per in-flight /api/play request thread
  ntrig,            \* number of /api/play requests received so far
  broadcasts,       \* history: play commands that reached a speaker
  confirmed,        \* history: files whose start play_audio confirmed
  mon,              \* one record per monitor_playback thread
  volume,           \* per speaker: its volume
  setup,            \* the run's deployment: set by Init, never changed
  jobs,             \* the scheduler's job store: scheduler.get_jobs()
  nsched,           \* number of schedule_prayers_for_date calls so far
  lastcall,         \* history: the latest schedule_prayers_for_date call
  proc,             \* one record per gunicorn worker process
  flock,            \* holder of the lock on /tmp/bilal_scheduler.lock, 0 if free
  scheduler,        \* server.py:309 module global: "none" or "running"
  MISSED_SCHED_ATTEMPTS,  \* server.py:311 module global: date -> attempts
  recovery,         \* history: the run of unsuccessful missed-scheduler firings
  pb,               \* playback.py: the call in progress and its speaker calls
  transport         \* history: the latest /api/transport/stop and its calls

recoverVars == <<scheduler, MISSED_SCHED_ATTEMPTS, recovery>>
schedVars == <<jobs, nsched, lastcall, recoverVars>>
leaderVars == <<proc, flock>>
pbVars == <<pb, transport>>

\* ------------------------------------------------------------------ bounds
MaxReq == 2
MaxTriggers == 2
MaxHist == 1
PollLatency == 57
MaxCalls == 2
MaxProcs == 3
MaxSpawns == 2
MaxDay == 1
MaxZones == 3
MaxPolls == 2

\* --------------------------------------------------------------- constants
MinutesPerDay == 24 * 60
TolMinutes == 5
HistoryKeep == 100
AzanVolume == 50
PriorVolume == 20
MonitorDuration == 180
DefaultAzanSeconds == 130
PollSleep == 3
RetryMinutes == 5
HourMinutes == 1 * 60
WidenAfter == 6

Req == 1..MaxReq
Files == {"fajr.mp3", "azan.mp3"}
\* Request thread 1 serves the scheduler's POST (_http_post_play), the
\* other threads serve an operator's requests.
OriginOf(r) == IF r = 1 THEN "scheduled" ELSE "manual"
PrayerKeys == <<"fajr", "dhuhr", "asr", "maghrib", "isha">>
Keys == {PrayerKeys[i] : i \in 1..Len(PrayerKeys)}

\* The primary (Node helper) answer of the time source: "HH:MM" per event.
NodeTimes ==
  [fajr |-> <<5, 12>>, dhuhr |-> <<12, 30>>, asr |-> <<15, 45>>,
   maghrib |-> <<18, 2>>, isha |-> <<19, 32>>]

\* datetime(y, m, d, hour, minute): minutes since day 0 00:00.
DateTime(d, hm) == d * MinutesPerDay + hm[1] * 60 + hm[2]
DateOf(t) == t \div MinutesPerDay

\* File a scheduled job asks for: fajr.mp3 for fajr, azan.mp3 otherwise.
FileOfKey(key) == IF key = "fajr" THEN "fajr.mp3" ELSE "azan.mp3"

\* The timestamps the ledger test endpoints are given: dhuhr on time and
\* late, asr on time.
SimTimes == {DateTime(0, <<12, 30>>), DateTime(0, <<12, 36>>),
            DateTime(0, <<15, 45>>)}

\* The instants the clock visits.
Clock == {DateTime(0, <<12, 30>>), DateTime(0, <<12, 33>>),
         DateTime(0, <<12, 36>>), DateTime(0, <<15, 46>>)}

\* --------------------------------------------------------- played ledger
LastRows(h, n) == IF Len(h) <= n THEN h ELSE SubSeq(h, Len(h) - n + 1, Len(h))

\* INSERT the row, then keep only the HistoryKeep most recent rows.
append_play_history_sql(h, filename, when) ==
  LastRows(Append(h, [file |-> filename, ts |-> when]), HistoryKeep)

\* A test that takes any row naming the event's file, whatever its time.
EntryOnTimeAnyTime(entry, scheduled_dt, key) == entry.file = FileOfKey(key)

\* One ledger row counts for (d, key) when it is within the tolerance of
\* the scheduled time and names the event's file.
EntryOnTime(entry, scheduled_dt, key) ==
  LET delta == IF entry.ts >= scheduled_dt THEN entry.ts - scheduled_dt
               ELSE scheduled_dt - entry.ts
  IN  delta <= TolMinutes /\ entry.file = FileOfKey(key)

PlayedOnTime(h, scheduled_dt, key) ==
  \E i \in 1..Len(h) : EntryOnTime(h[i], scheduled_dt, key)

\* ---------------------------------------------------------------- speakers
Speakers == {"s1", "s2"}
\* What get_sonos_speakers can return: the zones found, in discovery order.
Discoveries == {<<>>, <<"s1">>, <<"s1", "s2">>}
Members(sp) == {sp[i] : i \in 1..Len(sp)}

\* URIs, with the two substring tests the code applies to them.
AudioUrl(filename) == IF filename = "fajr.mp3" THEN "http://pi:5000/audio/fajr.mp3"
                      ELSE "http://pi:5000/audio/azan.mp3"
LocalUri == "http://pi:5000/audio/lesson.mp3"
StreamUri == "x-sonosapi-stream:s1?sid=254"
HasSid(uri) == uri = StreamUri
HasAudioPath(uri) == uri \in {AudioUrl("fajr.mp3"), AudioUrl("azan.mp3"), LocalUri}

\* Positions and durations "H:MM:SS" are the tuple of their parts; a text
\* that is no H:MM:SS has another number of parts, None and '' have none.
NOT_IMPLEMENTED == <<"NOT_IMPLEMENTED">>
NoPosition == <<>>
Seconds(parts) == parts[1] * 3600 + parts[2] * 60 + parts[3]

\* What the coordinator can report before the session (lines 1136-1137).
PriorTracks ==
  { [uri |-> LocalUri, position |-> <<0, 1, 0>>, state |-> "PLAYING"],
    [uri |-> LocalUri, position |-> NOT_IMPLEMENTED, state |-> "PLAYING"],
    [uri |-> StreamUri, position |-> <<0, 1, 0>>, state |-> "PLAYING"],
    [uri |-> "", position |-> NoPosition, state |-> "STOPPED"] }
NoTrack == [uri |-> "", position |-> NoPosition, state |-> "NONE"]

NoSnap == [set |-> FALSE, volume |-> 0, uri |-> "", position |-> NoPosition,
           state |-> "NONE"]
EmptySnapshot == [d \in Speakers |-> NoSnap]

\* ------------------------------------------------- the run's environment
Full == setup.answers = "full"
Watch == setup.answers = "watch"
FilesAsked == IF Full THEN Files ELSE {"azan.mp3"}
DiscoveriesNow == IF Full THEN Discoveries ELSE {<<>>, <<"s1", "s2">>}
FlaggedNow(sp) == IF Full THEN SUBSET Members(sp) ELSE {{}}
PriorTracksNow ==
  IF Full THEN PriorTracks
  ELSE {[uri |-> LocalUri, position |-> <<0, 1, 0>>, state |-> "PLAYING"]}
SnapshotOutcomes == IF Full THEN {"ok", "read_raises", "set_raises"}
                    ELSE {"ok", "read_raises"}
CallOutcomes == IF Full THEN BOOLEAN ELSE {TRUE}
ControlOutcomes == IF Full THEN {"ok", "raise"} ELSE {"ok"}

\* ------------------------------------------------------------ play_audio
NoPost == [uri |-> "", state |-> "NONE"]

\* The transport state each device is in by itself before the session:
\* play_audio asks the coordinator alone (lines 1136-1137), so the states
\* of the others are known to the devices only.  The coordinator's is the
\* one it reported.
NoOwn == [d \in Speakers |-> "NONE"]
OwnStates(speakers, coordinator, track_info) ==
  IF Watch
  THEN {own \in [Speakers -> {"NONE", "PLAYING", "STOPPED"}] :
          /\ own[coordinator] = track_info.state
          /\ \A d \in Speakers :
                IF d \in Members(speakers) THEN own[d] # "NONE"
                ELSE own[d] = "NONE"}
  ELSE {NoOwn}
IdleReq == [pc |-> "idle", file |-> "azan.mp3",
            dup |-> FALSE, result |-> "none", calls |-> 0,
            speakers |-> <<>>, coordinator |-> "", track |-> NoTrack,
            idx |-> 0, error_count |-> 0, post |-> NoPost, own |-> NoOwn]

\* What a request keeps once it has returned.
Returned(q, res) ==
  [IdleReq EXCEPT !.pc = "done", !.result = res, !.file = q.file,
                  !.dup = q.dup, !.calls = q.calls]

\* requested -> filename: 'fajr' in requested.lower() picks fajr.mp3.
MapFile(requested) == IF requested = "fajr.mp3" THEN "fajr.mp3" ELSE "azan.mp3"

\* A trigger at time t for file f is a trigger for event key of date d when
\* f is the event's file and t is within the tolerance of its time.
TriggerFor(f, t, d, key) ==
  /\ f = FileOfKey(key)
  /\ LET s == DateTime(d, NodeTimes[key])
     IN  (IF t >= s THEN t - s ELSE s - t) <= TolMinutes

\* The events of its date a trigger at time t for file f is for.
EventsOf(f, t) == {key \in Keys : TriggerFor(f, t, DateOf(t), key)}

\* The ledger already holds an on-time marker for the event this trigger is for.
AlreadyPlayed(h, f, t) ==
  \E key \in Keys :
    /\ TriggerFor(f, t, DateOf(t), key)
    /\ PlayedOnTime(h, DateTime(DateOf(t), NodeTimes[key]), key)

\* A play command of request thread r reaches a speaker.
Broadcast(r) ==
  {[origin |-> OriginOf(r), date |-> DateOf(now), key |-> k] :
     k \in EventsOf(req[r].file, now)}

\* control_with_fallback: cloud first, local on failure, re-raise when both fail.
control_with_fallback(cloud, local) ==
  IF cloud = "ok" THEN [status |-> "ok", mode |-> "cloud"]
  ELSE IF local = "ok" THEN [status |-> "ok", mode |-> "local"]
  ELSE [status |-> "raise", mode |-> "none"]

\* The lock check at the top of play_audio (line 1037).
LockCheck(lock) == lock

\* Lines 1036-1059: the request reads AZAN_LOCK and maps the file asked for.
Arrival(requested) ==
  LET q == [IdleReq EXCEPT
              !.file = MapFile(requested),
              !.dup = AlreadyPlayed(play_history, MapFile(requested), now)]
  IN  IF LockCheck(AZAN_LOCK) THEN Returned(q, "rejected")
      ELSE [q EXCEPT !.pc = "control"]

\* POST /api/play: a request arrives on thread r.
PlayInvoke(r) ==
  /\ req[r].pc \in {"idle", "done"}
  /\ mon[r].pc = "off"
  /\ ntrig < MaxTriggers
  /\ setup.overlap \/ r = 1
  /\ \E requested \in FilesAsked :
       req' = [req EXCEPT ![r] = Arrival(requested)]
  /\ ntrig' = ntrig + 1
  /\ UNCHANGED <<AZAN_LOCK, AZAN_STARTED, PLAYBACK_ACTIVE, SONOS_SNAPSHOT,
                 play_history, now, broadcasts, confirmed, mon, volume, setup,
                 schedVars, leaderVars, pbVars>>

\* Lines 1060-1117 and 1233-1235: the cloud/local control step.
PlayControl(r) ==
  /\ req[r].pc = "control"
  /\ \E cloud \in ControlOutcomes, local \in ControlOutcomes :
       LET result == control_with_fallback(cloud, local) IN
       IF result.status = "raise"
       THEN /\ req' = [req EXCEPT ![r] = Returned(req[r], "failed")]
            /\ UNCHANGED broadcasts
       ELSE IF result.status = "ok"
       THEN /\ req' = [req EXCEPT ![r] =
                         Returned([req[r] EXCEPT !.calls = 1], "started")]
            /\ broadcasts' = broadcasts \cup Broadcast(r)
       ELSE /\ req' = [req EXCEPT ![r].pc = "discover"]
            /\ UNCHANGED broadcasts
  /\ UNCHANGED <<AZAN_LOCK, AZAN_STARTED, PLAYBACK_ACTIVE, SONOS_SNAPSHOT,
                 play_history, now, ntrig, confirmed, mon, volume, setup,
                 schedVars, leaderVars, pbVars>>

\* ----------------------------------------- play_audio: the direct path
\* Line 1117: "otherwise continue into original local logic as a last resort".
PlayFallThrough(r) ==
  /\ req[r].pc = "control"
  /\ req' = [req EXCEPT ![r].pc = "discover"]
  /\ UNCHANGED <<AZAN_LOCK, AZAN_STARTED, PLAYBACK_ACTIVE, SONOS_SNAPSHOT,
                 play_history, now, ntrig, broadcasts, confirmed, mon, volume, setup,
                 schedVars, leaderVars, pbVars>>

\* Line 1132: the first speaker flagged is_coordinator, else speakers[0].
ElectCoordinator(sp, flagged) ==
  IF \E i \in 1..Len(sp) : sp[i] \in flagged
  THEN sp[CHOOSE i \in 1..Len(sp) :
            sp[i] \in flagged /\ \A j \in 1..(i - 1) : sp[j] \notin flagged]
  ELSE sp[1]

\* A trigger that takes the lock before it looks at the discovery.
LockBeforeDiscover(speakers, lock) == TRUE

\* Lines 1120-1127: the lock is set after the return for 'not speakers'.
LockAfterDiscover(speakers, lock) == IF speakers = <<>> THEN lock ELSE TRUE

\* Lines 1119-1133: discovery, then the snapshot is cleared and the lock taken.
PlayDiscover(r) ==
  /\ req[r].pc = "discover"
  /\ \E sp \in DiscoveriesNow :
       IF sp = <<>>
       THEN /\ req' = [req EXCEPT ![r] =
                         Returned([req[r] EXCEPT !.calls = 1], "failed")]
            /\ AZAN_LOCK' = LockAfterDiscover(sp, AZAN_LOCK)
            /\ UNCHANGED SONOS_SNAPSHOT
       ELSE \E flagged \in FlaggedNow(sp) :
            /\ SONOS_SNAPSHOT' = EmptySnapshot
            /\ AZAN_LOCK' = LockAfterDiscover(sp, AZAN_LOCK)
            /\ req' = [req EXCEPT ![r].pc = "coordinfo", ![r].calls = 1,
                                  ![r].speakers = sp,
                                  ![r].coordinator = ElectCoordinator(sp, flagged)]
  /\ UNCHANGED <<AZAN_STARTED, PLAYBACK_ACTIVE, play_history, now, ntrig,
                 broadcasts, confirmed, mon, volume, setup,
                 schedVars, leaderVars, pbVars>>

\* Lines 1136-1137: the coordinator's track and transport info; a raise is
\* caught by the handler of lines 1233-1235.
PlayCoordInfo(r) ==
  /\ req[r].pc = "coordinfo"
  /\ \/ req' = [req EXCEPT ![r] = Returned(req[r], "failed")]
     \/ \E tr \in PriorTracksNow :
          \E own \in OwnStates(req[r].speakers, req[r].coordinator, tr) :
            req' = [req EXCEPT ![r].pc = "snapshot", ![r].track = tr,
                               ![r].idx = 1, ![r].error_count = 0,
                               ![r].own = own]
  /\ UNCHANGED <<AZAN_LOCK, AZAN_STARTED, PLAYBACK_ACTIVE, SONOS_SNAPSHOT,
                 play_history, now, ntrig, broadcasts, confirmed, mon, volume, setup,
                 schedVars, leaderVars, pbVars>>

\* Lines 1142-1147: the snapshot entry of one speaker.
SnapshotOf(vol, track_info) ==
  [set |-> TRUE, volume |-> vol, uri |-> track_info.uri,
   position |-> track_info.position, state |-> track_info.state]

\* A trigger that goes on whatever the snapshot loop counted.
SnapshotAllFailedNever(error_count, speakers) == FALSE

\* A trigger that gives up as soon as one speaker failed.
SnapshotAnyFailed(error_count, speakers) == error_count >= 1

\* Line 1155: error_count == len(speakers).
SnapshotAllFailed(error_count, speakers) == error_count = Len(speakers)

\* Lines 1140-1158: one pass of the snapshot loop; after the last speaker
\* the trigger gives up when every speaker failed.
PlaySnapshot(r) ==
  /\ req[r].pc = "snapshot"
  /\ LET q == req[r]
         s == q.speakers[q.idx]
         last == q.idx = Len(q.speakers)
     IN \E outcome \in SnapshotOutcomes :
          LET errs == IF outcome = "ok" THEN q.error_count
                      ELSE q.error_count + 1
              all_failed == last /\ SnapshotAllFailed(errs, q.speakers)
          IN /\ SONOS_SNAPSHOT' =
                  IF outcome = "read_raises" THEN SONOS_SNAPSHOT
                  ELSE [SONOS_SNAPSHOT EXCEPT ![s] = SnapshotOf(volume[s], q.track)]
             /\ volume' = IF outcome = "ok"
                          THEN [volume EXCEPT ![s] = AzanVolume] ELSE volume
             /\ AZAN_LOCK' = IF all_failed THEN FALSE ELSE AZAN_LOCK
             /\ req' = [req EXCEPT ![r] =
                          IF all_failed THEN Returned(q, "failed")
                          ELSE IF last
                          THEN [q EXCEPT !.pc = "play", !.error_count = errs]
                          ELSE [q EXCEPT !.idx = q.idx + 1, !.error_count = errs]]
  /\ UNCHANGED <<AZAN_STARTED, PLAYBACK_ACTIVE, play_history, now, ntrig,
                 broadcasts, confirmed, mon, setup,
                 schedVars, leaderVars, pbVars>>

\* Lines 1175-1178 and 1220-1225: the play command to the coordinator.
PlayStart(r) ==
  /\ req[r].pc = "play"
  /\ \/ /\ req' = [req EXCEPT ![r].pc = "verify"]
        /\ broadcasts' = broadcasts \cup Broadcast(r)
        /\ UNCHANGED AZAN_LOCK
     \/ /\ req' = [req EXCEPT ![r] = Returned(req[r], "failed")]
        /\ AZAN_LOCK' = FALSE
        /\ UNCHANGED broadcasts
  /\ UNCHANGED <<AZAN_STARTED, PLAYBACK_ACTIVE, SONOS_SNAPSHOT, play_history,
                 now, ntrig, confirmed, mon, volume, setup,
                 schedVars, leaderVars, pbVars>>

\* What the coordinator can report one second after the play command.
PostTracks ==
  { [uri |-> u, state |-> st] :
      u \in {AudioUrl("azan.mp3"), AudioUrl("fajr.mp3"), StreamUri, ""},
      st \in {"PLAYING", "TRANSITIONING", "STOPPED"} }

\* A verification that confirms whatever the coordinator reports.
StartConfirmedAlways(audio_url, post_uri, post_state) == TRUE

\* A verification that takes every state but STOPPED for a start.
StartConfirmedUnlessStopped(audio_url, post_uri, post_state) ==
  (post_uri = audio_url) \/ (post_state # "STOPPED")

\* Line 1187: the start counts as confirmed.
StartConfirmed(audio_url, post_uri, post_state) ==
  (post_uri = audio_url) \/ (post_state = "PLAYING")

\* Lines 1188, 1213, 1218, 1224: play_audio declares only PLAYBACK_ACTIVE and
\* AZAN_LOCK global, so its assignments to AZAN_STARTED bind a local name.
StoreAzanStarted(global, value) == global

\* What the last pass of the loop was answered (seen) and how the loop was
\* left (left): kept by the specification that watches the monitor.
Seen(state, uri, position) ==
  [state |-> state, uri |-> uri, position |-> position]
NoSeen == Seen("", "", NoPosition)
Watched(m, left, seen) ==
  IF Watch THEN [m EXCEPT !.left = left, !.seen = seen] ELSE m

IdleMon == [pc |-> "off", coordinator |-> "", speakers |-> <<>>,
            audio_url |-> "", elapsed |-> 0, last_azan_position |-> NoPosition,
            resume_attempted |-> FALSE, idx |-> 0,
            divergences |-> 0, resumes |-> 0,
            last |-> [dev |-> "", snap |-> NoSnap, calls |-> <<>>],
            left |-> "", seen |-> NoSeen, own |-> NoOwn]

\* Line 1229: the monitor thread of a session.
StartMonitor(q) ==
  [IdleMon EXCEPT !.pc = "poll", !.coordinator = q.coordinator,
                  !.speakers = q.speakers, !.audio_url = AudioUrl(q.file),
                  !.own = q.own]

\* Lines 1180-1186 and 1216-1219: one second after the play command the
\* coordinator is asked what it plays; a raise ends the trigger as failed.
PlayVerify(r) ==
  /\ req[r].pc = "verify"
  /\ \/ \E post \in PostTracks :
          /\ req' = [req EXCEPT ![r].pc = "confirm", ![r].post = post]
          /\ UNCHANGED <<AZAN_LOCK, AZAN_STARTED>>
     \/ /\ AZAN_LOCK' = FALSE
        /\ AZAN_STARTED' = StoreAzanStarted(AZAN_STARTED, FALSE)
        /\ req' = [req EXCEPT ![r] = Returned(req[r], "failed")]
  /\ UNCHANGED <<PLAYBACK_ACTIVE, SONOS_SNAPSHOT, play_history, now, ntrig,
                 broadcasts, confirmed, mon, volume, setup,
                 schedVars, leaderVars, pbVars>>

\* Lines 1187-1215 and 1227-1231: on a confirmed start the marker is written
\* and the monitor thread started; otherwise the lock is released.
PlayConfirm(r) ==
  /\ req[r].pc = "confirm"
  /\ IF StartConfirmed(AudioUrl(req[r].file), req[r].post.uri, req[r].post.state)
     THEN /\ AZAN_STARTED' = StoreAzanStarted(AZAN_STARTED, TRUE)
          /\ play_history' =
               append_play_history_sql(play_history, req[r].file, now)
          /\ confirmed' = confirmed \cup {req[r].file}
          /\ PLAYBACK_ACTIVE' = TRUE
          /\ mon' = [mon EXCEPT ![r] = StartMonitor(req[r])]
          /\ req' = [req EXCEPT ![r] = Returned(req[r], "started")]
          /\ UNCHANGED AZAN_LOCK
     ELSE /\ AZAN_LOCK' = FALSE
          /\ AZAN_STARTED' = StoreAzanStarted(AZAN_STARTED, FALSE)
          /\ req' = [req EXCEPT ![r] = Returned(req[r], "failed")]
          /\ UNCHANGED <<play_history, confirmed, PLAYBACK_ACTIVE, mon>>
  /\ UNCHANGED <<SONOS_SNAPSHOT, now, ntrig, broadcasts, volume, setup,
                 schedVars, leaderVars, pbVars>>

\* ------------------------------------------------------ monitor_playback
\* What one poll of the coordinator can report (lines 1251-1254).
PollStates == IF Full \/ Watch THEN {"PLAYING", "STOPPED", "PAUSED_PLAYBACK"}
              ELSE {"PLAYING", "STOPPED"}
PollPositions == IF Full \/ Watch THEN {<<0, 0, 0>>, <<0, 1, 0>>, <<0, 2, 10>>}
                 ELSE {<<0, 1, 0>>}
PollUris(audio_url) ==
  IF Full \/ Watch THEN {audio_url, StreamUri} ELSE {audio_url}
\* A loop that never runs out of time.
BudgetLeftAlways(elapsed) == TRUE

\* Line 1249: while time.time() - start_time < duration.
BudgetLeft(elapsed) == elapsed < MonitorDuration

\* Seconds one pass of the loop takes: the 3 s sleep and the speaker's answers.
PassSeconds == PollSleep + PollLatency

\* Lines 1261-1266: the track's duration in seconds, 130 when it is no H:MM:SS.
AzanDurationSeconds(duration_parts) ==
  IF Len(duration_parts) = 3 THEN Seconds(duration_parts) ELSE DefaultAzanSeconds

\* Lines 1256-1258 and 1259-1276: the loop is left by a natural end.
NaturalEnd(state, current_uri, audio_url, position, duration) ==
  \/ state = "STOPPED" /\ current_uri = audio_url
  \/ /\ current_uri = audio_url
     /\ Len(position) = 3
     /\ Seconds(position) >= AzanDurationSeconds(duration)

\* A resume decision that looks at the last position only.
ResumeAllowedEveryTime(started, attempted, last_position) ==
  /\ last_position # NoPosition
  /\ last_position # <<0, 0, 0>>

\* Lines 1280-1286: the conditions under which the single resume is attempted.
ResumeAllowed(started, attempted, last_position) ==
  /\ started
  /\ ~attempted
  /\ last_position # NoPosition
  /\ last_position # <<0, 0, 0>>

\* Lines 1322-1325: the loop is left; the flags are cleared, restoration begins.
LeaveLoop(m) ==
  [m EXCEPT !.pc = "restore", !.idx = 1, !.elapsed = 0,
            !.last_azan_position = NoPosition, !.resume_attempted = FALSE]

\* Lines 1249-1321: one pass of the monitoring loop.
MonitorPoll(r) ==
  /\ mon[r].pc = "poll"
  /\ LET m == mon[r] IN
     IF ~BudgetLeft(m.elapsed)
     THEN /\ mon' = [mon EXCEPT ![r] = Watched(LeaveLoop(m), "timeout", m.seen)]
          /\ AZAN_LOCK' = FALSE
          /\ PLAYBACK_ACTIVE' = FALSE
     ELSE \/ \* a query raises: "Monitor Error", break
             /\ mon' = [mon EXCEPT ![r] =
                         Watched(LeaveLoop(m), "error",
                                 Seen("RAISES", "", NoPosition))]
             /\ AZAN_LOCK' = FALSE
             /\ PLAYBACK_ACTIVE' = FALSE
          \/ \E state \in PollStates, current_uri \in PollUris(m.audio_url),
                position \in PollPositions, dt \in {PassSeconds} :
               IF NaturalEnd(state, current_uri, m.audio_url, position, <<0, 2, 10>>)
               THEN /\ mon' = [mon EXCEPT ![r] =
                               Watched(LeaveLoop(m), "end",
                                       Seen(state, current_uri, position))]
                    /\ AZAN_LOCK' = FALSE
                    /\ PLAYBACK_ACTIVE' = FALSE
               ELSE IF current_uri = m.audio_url
               THEN /\ mon' = [mon EXCEPT ![r] =
                               Watched([m EXCEPT !.last_azan_position = position,
                                                 !.elapsed = m.elapsed + dt],
                                       "", Seen(state, current_uri, position))]
                    /\ UNCHANGED <<AZAN_LOCK, PLAYBACK_ACTIVE>>
               ELSE /\ mon' = [mon EXCEPT ![r] = Watched(
                         [m EXCEPT
                            !.elapsed = m.elapsed + dt,
                            !.divergences = IF m.divergences < 2
                                            THEN m.divergences + 1 ELSE 2,
                            !.resume_attempted =
                               m.resume_attempted \/
                               ResumeAllowed(AZAN_STARTED, m.resume_attempted,
                                             m.last_azan_position),
                            !.resumes =
                               IF ResumeAllowed(AZAN_STARTED, m.resume_attempted,
                                                m.last_azan_position)
                               THEN m.resumes + 1 ELSE m.resumes],
                         "", Seen(state, current_uri, position))]
                    /\ UNCHANGED <<AZAN_LOCK, PLAYBACK_ACTIVE>>
  /\ UNCHANGED <<AZAN_STARTED, SONOS_SNAPSHOT, play_history, now, req, ntrig,
                 broadcasts, confirmed, volume, setup,
                 schedVars, leaderVars, pbVars>>

\* Lines 1375-1391: the end event is logged and the thread ends.
MonitorEnd(r) ==
  /\ mon[r].pc = "end"
  /\ mon' = [mon EXCEPT ![r] = IdleMon]
  /\ UNCHANGED <<AZAN_LOCK, AZAN_STARTED, PLAYBACK_ACTIVE, SONOS_SNAPSHOT,
                 play_history, now, req, ntrig, broadcasts, confirmed, volume, setup,
                 schedVars, leaderVars, pbVars>>

\* Line 1350: the snapped URI is taken for a stream.
IsStream(uri) == HasSid(uri) \/ ~HasAudioPath(uri)

Call(op, uri, position, ok) ==
  [op |-> op, uri |-> uri, position |-> position, ok |-> ok]

\* A restoration that re-plays the snapped URI and never seeks.
RestoreCallsNoSeek(snap, is_coordinator, vol_ok, unjoin_ok, play_ok, seek_ok) ==
  <<Call("set_volume", "", NoPosition, vol_ok)>>
  \o (IF is_coordinator THEN <<>>
      ELSE <<Call("unjoin", "", NoPosition, unjoin_ok)>>)
  \o (IF snap.state = "PLAYING" /\ snap.uri # ""
      THEN <<Call("play_uri", snap.uri, NoPosition, play_ok)>>
      ELSE <<>>)

\* Lines 1329-1372: the calls restoration issues to one speaker, in order;
\* vol_ok, unjoin_ok, play_ok, seek_ok say which of them succeed.
RestoreCalls(snap, is_coordinator, vol_ok, unjoin_ok, play_ok, seek_ok) ==
  <<Call("set_volume", "", NoPosition, vol_ok)>>
  \o (IF is_coordinator THEN <<>>
      ELSE <<Call("unjoin", "", NoPosition, unjoin_ok)>>)
  \o (IF snap.state = "PLAYING" /\ snap.uri # ""
      THEN IF IsStream(snap.uri)
           THEN <<Call("play_uri", snap.uri, NoPosition, play_ok)>>
           ELSE <<Call("play_uri", snap.uri, NoPosition, play_ok)>>
                \o (IF /\ play_ok
                       /\ snap.position # NoPosition
                       /\ snap.position # NOT_IMPLEMENTED
                    THEN <<Call("seek", "", snap.position, seek_ok)>>
                    ELSE <<>>)
      ELSE <<>>)

\* Lines 1327-1375: restoration of one speaker from the snapshot.
MonitorRestore(r) ==
  /\ mon[r].pc = "restore"
  /\ LET m == mon[r]
         s == m.speakers[m.idx]
         snap == SONOS_SNAPSHOT[s]
         next_pc == IF m.idx = Len(m.speakers) THEN "end" ELSE "restore"
     IN IF ~snap.set
        THEN /\ mon' = [mon EXCEPT ![r].idx = m.idx + 1, ![r].pc = next_pc,
                          ![r].last = [dev |-> s, snap |-> snap, calls |-> <<>>]]
             /\ UNCHANGED volume
        ELSE \E vol_ok, unjoin_ok, play_ok, seek_ok \in CallOutcomes :
             /\ volume' = IF vol_ok THEN [volume EXCEPT ![s] = snap.volume]
                          ELSE volume
             /\ mon' = [mon EXCEPT ![r].idx = m.idx + 1, ![r].pc = next_pc,
                          ![r].last = [dev |-> s, snap |-> snap, calls |->
                             RestoreCalls(snap, s = m.coordinator, vol_ok,
                                          unjoin_ok, play_ok, seek_ok)]]
  /\ UNCHANGED <<AZAN_LOCK, AZAN_STARTED, PLAYBACK_ACTIVE, SONOS_SNAPSHOT,
                 play_history, now, req, ntrig, broadcasts, confirmed, setup,
                 schedVars, leaderVars, pbVars>>

\* ------------------------------------------- api_transport_stop
\* What get_sonos_speakers can return to the stop command.
ZonesFound == {<<>>, <<"s1", "s2", "s3">>}
\* The speakers that report is_coordinator to the stop command.
StopFlagged == {{"s2"}}

StopCall(op, dev, ok) == [op |-> op, dev |-> dev, ok |-> ok]
NoStop == [status |-> 0, do_unjoin |-> TRUE, speakers |-> <<>>,
           coordinator |-> "", calls |-> <<>>, stopped |-> FALSE,
           unjoined |-> <<>>]

\* The speakers of the list other than the coordinator, in list order.
RECURSIVE Others(_, _)
Others(speakers, coordinator) ==
  IF speakers = <<>> THEN <<>>
  ELSE IF Head(speakers) = coordinator
  THEN Others(Tail(speakers), coordinator)
  ELSE <<Head(speakers)>> \o Others(Tail(speakers), coordinator)

\* A stop command that the first raising call ends.
StopCallsUntilRaise(speakers, coordinator, do_unjoin, raising) ==
  LET others == Others(speakers, coordinator)
      calls == <<StopCall("stop", coordinator, coordinator \notin raising)>> \o
               (IF do_unjoin
                THEN [i \in 1..Len(others) |->
                        StopCall("unjoin", others[i], others[i] \notin raising)]
                ELSE <<>>)
  IN  IF \E i \in 1..Len(calls) : ~calls[i].ok
      THEN SubSeq(calls, 1, CHOOSE i \in 1..Len(calls) :
                              ~calls[i].ok /\ \A j \in 1..(i - 1) : calls[j].ok)
      ELSE calls

\* Lines 971-984: coordinator.stop() in its own try, then, when do_unjoin,
\* s.unjoin() for every other speaker, each in its own try; raising holds
\* the speakers whose call raises.
StopCalls(speakers, coordinator, do_unjoin, raising) ==
  LET others == Others(speakers, coordinator)
  IN  <<StopCall("stop", coordinator, coordinator \notin raising)>> \o
      (IF do_unjoin
       THEN [i \in 1..Len(others) |->
               StopCall("unjoin", others[i], others[i] \notin raising)]
       ELSE <<>>)

\* The names of results['unjoined']: the speakers whose unjoin returned.
RECURSIVE Unjoined(_)
Unjoined(calls) ==
  IF calls = <<>> THEN <<>>
  ELSE (IF Head(calls).op = "unjoin" /\ Head(calls).ok
        THEN <<Head(calls).dev>> ELSE <<>>) \o Unjoined(Tail(calls))

\* POST /api/transport/stop, lines 958-995.
api_transport_stop ==
  /\ \/ \* get_sonos_speakers raises: the handler of lines 993-995
        transport' = [NoStop EXCEPT !.status = 500]
     \/ \E do_unjoin \in BOOLEAN, speakers \in ZonesFound :
          IF speakers = <<>>
          THEN transport' = [NoStop EXCEPT !.status = 404,
                                           !.do_unjoin = do_unjoin]
          ELSE \E flagged \in StopFlagged :
               LET coordinator == ElectCoordinator(speakers, flagged)
                   called == IF do_unjoin THEN Members(speakers)
                             ELSE {coordinator}
               IN  \E raising \in SUBSET called :
                 LET calls == StopCalls(speakers, coordinator, do_unjoin, raising)
                 IN  transport' =
                       [status |-> 200,
                        do_unjoin |-> do_unjoin, speakers |-> speakers,
                        coordinator |-> coordinator, calls |-> calls,
                        stopped |-> calls[1].ok,
                        unjoined |-> Unjoined(calls)]
  /\ UNCHANGED <<AZAN_LOCK, AZAN_STARTED, PLAYBACK_ACTIVE, SONOS_SNAPSHOT,
                 play_history, now, req, ntrig, broadcasts, confirmed, mon,
                 volume, setup, schedVars, leaderVars, pb>>

\* ------------------------------------------------- ledger test endpoints
\* The table as an earlier run of the server left it: n rows written at
\* FillTime.
FillTime == DateTime(0, <<5, 0>>)
StoredLedger(n) == [i \in 1..n |-> [file |-> "fajr.mp3", ts |-> FillTime]]

\* The test endpoints are called while fewer than MaxHist rows have been
\* written since the server started.
LedgerRoom(h) ==
  Cardinality({i \in 1..Len(h) : h[i].ts # FillTime}) < MaxHist

\* api_simulate_play: append (file, ts) with ts given or now; no speaker call.
api_simulate_play ==
  /\ LedgerRoom(play_history)
  /\ \E fname \in Files, when \in SimTimes \cup {now} :
       play_history' = append_play_history_sql(play_history, fname, when)
  /\ UNCHANGED <<AZAN_LOCK, AZAN_STARTED, PLAYBACK_ACTIVE, SONOS_SNAPSHOT,
                 now, req, ntrig, broadcasts, confirmed, mon, volume, setup,
                 schedVars, leaderVars, pbVars>>

\* api_test_play: append (file, ts) with ts given or now; no speaker call.
api_test_play ==
  /\ LedgerRoom(play_history)
  /\ \E fname \in Files, when \in SimTimes \cup {now} :
       play_history' = append_play_history_sql(play_history, fname, when)
  /\ UNCHANGED <<AZAN_LOCK, AZAN_STARTED, PLAYBACK_ACTIVE, SONOS_SNAPSHOT,
                 now, req, ntrig, broadcasts, confirmed, mon, volume, setup,
                 schedVars, leaderVars, pbVars>>

\* The wall clock moves on.
Tick ==
  /\ \E t \in Clock : t > now /\ now' = t
  /\ UNCHANGED <<AZAN_LOCK, AZAN_STARTED, PLAYBACK_ACTIVE, SONOS_SNAPSHOT,
                 play_history, req, ntrig, broadcasts, confirmed, mon, volume, setup,
                 schedVars, leaderVars, pbVars>>

\* ------------------------------------------------------- playback.py
\* The zones of the household, and the speaker lists a caller can pass:
\* every list of distinct zones.
Zones == 1..MaxZones
ZoneLists ==
  UNION {{sq \in [1..n -> Zones] :
            \A i, j \in 1..n : i # j => sq[i] # sq[j]} : n \in 0..MaxZones}
player_name(z) == <<"Zone", z>>
None == <<"None">>
ZoneCall(op, dev, to, ok) == [op |-> op, dev |-> dev, to |-> to, ok |-> ok]

NoPb == [pc |-> "idle", op |-> "none", speakers |-> <<>>, raising |-> {},
         calls |-> <<>>, result |-> None, state |-> "", members_read |-> TRUE,
         polls |-> 0]

\* Lines 37-41: the first speaker, or None (0) for an empty list.
choose_coordinator(speakers) == IF speakers = <<>> THEN 0 ELSE speakers[1]

\* A loop that the first raising call ends.
CallsUntilRaise(calls) ==
  IF \E i \in 1..Len(calls) : ~calls[i].ok
  THEN SubSeq(calls, 1, CHOOSE i \in 1..Len(calls) :
                          ~calls[i].ok /\ \A j \in 1..(i - 1) : calls[j].ok)
  ELSE calls
JoinCallsUntilRaise(speakers, raising) ==
  CallsUntilRaise([i \in 1..(Len(speakers) - 1) |->
                     ZoneCall("join", speakers[i + 1], speakers[1],
                              speakers[i + 1] \notin raising)])

\* Lines 115-120: s.join(coordinator) for s in speakers[1:], each in its
\* own try; raising holds the zones whose call raises.
JoinCalls(speakers, raising) ==
  [i \in 1..(Len(speakers) - 1) |->
     ZoneCall("join", speakers[i + 1], speakers[1],
              speakers[i + 1] \notin raising)]

\* group_zones(speakers), lines 102-122.
group_zones ==
  /\ pb.pc = "idle"
  /\ \E speakers \in ZoneLists, raising \in SUBSET Zones :
       pb' = [NoPb EXCEPT
                !.pc = "grouped", !.op = "group_zones",
                !.speakers = speakers, !.raising = raising,
                !.calls = IF speakers = <<>> THEN <<>>
                          ELSE JoinCalls(speakers, raising),
                !.result = IF speakers = <<>> THEN None
                           ELSE player_name(choose_coordinator(speakers))]
  /\ UNCHANGED <<AZAN_LOCK, AZAN_STARTED, PLAYBACK_ACTIVE, SONOS_SNAPSHOT,
                 play_history, now, req, ntrig, broadcasts, confirmed, mon,
                 volume, setup, schedVars, leaderVars, transport>>

\* Lines 96-99 and 66-68: the monitor thread of a coordinator starts and
\* sleeps five seconds.  speakers[1] is the coordinator.
start_monitor ==
  /\ pb.pc = "idle"
  /\ \E coordinator \in Zones :
       pb' = [NoPb EXCEPT !.pc = "poll", !.op = "monitor_playback",
                          !.speakers = <<coordinator>>]
  /\ UNCHANGED <<AZAN_LOCK, AZAN_STARTED, PLAYBACK_ACTIVE, SONOS_SNAPSHOT,
                 play_history, now, req, ntrig, broadcasts, confirmed, mon,
                 volume, setup, schedVars, leaderVars, transport>>

TransportStates == {"PLAYING", "TRANSITIONING", "STOPPED", "PAUSED_PLAYBACK"}
UnjoinCallsUntilRaise(members, coordinator, raising) ==
  CallsUntilRaise(
    LET others == SelectSeq(members, LAMBDA s : s # coordinator)
    IN [i \in 1..Len(others) |->
          ZoneCall("unjoin", others[i], 0, others[i] \notin raising)])

\* Lines 82-87: s.unjoin() for every member but the coordinator, each in
\* its own try.
UnjoinCalls(members, coordinator, raising) ==
  LET others == SelectSeq(members, LAMBDA s : s # coordinator)
  IN [i \in 1..Len(others) |->
        ZoneCall("unjoin", others[i], 0, others[i] \notin raising)]

\* Lines 70-93: one pass of the loop of monitor_playback(coordinator).  On
\* a state that is neither PLAYING nor TRANSITIONING the group's members
\* are read (group: the members the group has, coordinator included;
\* members_read: whether coordinator.group.members could be read) and each
\* is asked to unjoin; a raising transport query ends the loop at once.
monitor_playback ==
  /\ pb.pc = "poll"
  /\ LET coordinator == pb.speakers[1] IN
     \/ \E state \in {"PLAYING", "TRANSITIONING"} :
          /\ pb.polls < MaxPolls
          /\ pb' = [pb EXCEPT !.state = state, !.polls = pb.polls + 1]
     \/ pb' = [pb EXCEPT !.pc = "ended", !.state = "RAISES"]
     \/ \E state \in TransportStates \ {"PLAYING", "TRANSITIONING"},
           group \in {g \in ZoneLists : g # <<>> /\ g[1] = coordinator},
           members_read \in BOOLEAN, raising \in SUBSET Zones :
          LET members == IF members_read THEN group ELSE <<>> IN
          pb' = [pb EXCEPT !.pc = "ended", !.state = state,
                           !.speakers = group, !.raising = raising,
                           !.members_read = members_read,
                           !.calls = UnjoinCalls(members, coordinator, raising)]
  /\ UNCHANGED <<AZAN_LOCK, AZAN_STARTED, PLAYBACK_ACTIVE, SONOS_SNAPSHOT,
                 play_history, now, req, ntrig, broadcasts, confirmed, mon,
                 volume, setup, schedVars, leaderVars, transport>>

\* ------------------------------------------------------------- scheduler
Dates == {0, 1}
NoTime == <<>>
\* The fallback (local praytimes) answer: another implementation of the same
\* computation, which need not agree with the helper to the minute.
PrayTimes == [NodeTimes EXCEPT !.asr = <<15, 46>>]
\* A helper answer that parses as JSON and names no event: every get is None.
EmptyTimes == [k \in Keys |-> NoTime]

\* Lines 554-595: the helper's times when it produced any, else praytimes.
HelperOutcomes == {"times", "empty", "fails"}
ComputeTimes(helper) ==
  IF helper = "times" THEN NodeTimes
  ELSE IF helper = "empty" THEN EmptyTimes
  ELSE PrayTimes

\* Line 646: job_id = f"azan-{target_date.isoformat()}-{key}".
JobId(d, key) == <<"azan", d, key>>
JobIds(store) == {store[i].id : i \in 1..Len(store)}
\* A lookup that never finds the id.
AlreadyScheduledNever(job_id, existing) == FALSE

\* Lines 647-648: the id is looked up among the jobs of the store.
AlreadyScheduled(job_id, existing) == job_id \in existing
\* Line 655: the play job, a DateTrigger at the event's time.
PlayJob(d, key, scheduled_dt) ==
  [id |-> JobId(d, key), run |-> scheduled_dt, file |-> FileOfKey(key),
   every |-> 0]

\* A test that lets an event at exactly the current time through.
PastUnplayedStrict(scheduled_dt, t, played_on_time) ==
  scheduled_dt < t /\ ~played_on_time

\* Line 640: scheduled_dt <= now and not played_on_time.
PastUnplayed(scheduled_dt, t, played_on_time) ==
  scheduled_dt <= t /\ ~played_on_time

\* Lines 602-656: the loop over prayer_keys from the i-th key on.
RECURSIVE ScheduleLoop(_, _, _, _, _, _)
ScheduleLoop(i, store, d, times, h, t) ==
  IF i > Len(PrayerKeys) THEN store
  ELSE LET key == PrayerKeys[i]
           tstr == times[key]
           scheduled_dt == DateTime(d, tstr)
           played_on_time == PlayedOnTime(h, scheduled_dt, key)
       IN IF tstr = NoTime
          THEN ScheduleLoop(i + 1, store, d, times, h, t)
          ELSE IF PastUnplayed(scheduled_dt, t, played_on_time)
          THEN ScheduleLoop(i + 1, store, d, times, h, t)
          ELSE IF played_on_time
          THEN ScheduleLoop(i + 1, store, d, times, h, t)
          ELSE IF AlreadyScheduled(JobId(d, key), JobIds(store))
          THEN ScheduleLoop(i + 1, store, d, times, h, t)
          ELSE ScheduleLoop(i + 1, Append(store, PlayJob(d, key, scheduled_dt)),
                            d, times, h, t)

NoCall == [date |-> 0 - 1, helper |-> "none", hist |-> <<>>, before |-> {},
           ids |-> {}, scheduled_count |-> 0, repeat |-> FALSE]

\* schedule_prayers_for_date(target_date).  lastcall records the call; repeat
\* says that it repeats the call before it: same date, same answer of the
\* time source, same ledger, and the job store as that call left it.
schedule_prayers_for_date(d) ==
  /\ nsched < MaxCalls
  /\ \E helper \in HelperOutcomes :
       LET store == ScheduleLoop(1, jobs, d, ComputeTimes(helper),
                                 play_history, now)
       IN /\ jobs' = store
          /\ lastcall' =
               [date |-> d, helper |-> helper, hist |-> play_history,
                before |-> JobIds(jobs), ids |-> JobIds(store),
                scheduled_count |-> Len(store) - Len(jobs),
                repeat |-> /\ lastcall.date = d
                           /\ lastcall.helper = helper
                           /\ lastcall.hist = play_history
                           /\ lastcall.ids = JobIds(jobs)]
  /\ nsched' = nsched + 1
  /\ UNCHANGED <<AZAN_LOCK, AZAN_STARTED, PLAYBACK_ACTIVE, SONOS_SNAPSHOT,
                 play_history, now, req, ntrig, broadcasts, confirmed, mon,
                 volume, setup, leaderVars, recoverVars, pbVars>>

RemoveAt(store, i) ==
  SubSeq(store, 1, i - 1) \o SubSeq(store, i + 1, Len(store))

\* A play job comes due: the DateTrigger job leaves the store and
\* _http_post_play posts its file to /api/play, served by request thread 1.
JobFire(i) ==
  /\ i \in 1..Len(jobs)
  /\ jobs[i].id[1] = "azan"
  /\ jobs[i].run <= now
  /\ req[1].pc \in {"idle", "done"}
  /\ mon[1].pc = "off"
  /\ jobs' = RemoveAt(jobs, i)
  /\ req' = [req EXCEPT ![1] = Arrival(jobs[i].file)]
  /\ UNCHANGED <<AZAN_LOCK, AZAN_STARTED, PLAYBACK_ACTIVE, SONOS_SNAPSHOT,
                 play_history, now, ntrig, broadcasts, confirmed, mon, volume,
                 setup, nsched, lastcall, leaderVars, recoverVars,
                 pbVars>>

\* ------------------------------------------- daily and recovery jobs
Days == 0..MaxDay
Horizon == DateTime(MaxDay, <<23, 59>>)
MissedId == <<"missed-scheduler">>
DailyId == <<"rescheduler-daily">>
AddJobOutcomes == {"added", "raises"}

\* Lines 674 and 358: the day after cur at 00:05.
DailyAt(cur) == DateTime(cur + 1, <<0, 5>>)
\* A DateTrigger job of one of the wrappers: it runs once.
DateJob(id, run_date) == [id |-> id, run |-> run_date, file |-> "", every |-> 0]
\* An IntervalTrigger job added at t: first run one interval after t.
IntervalJob(id, every, t) ==
  [id |-> id, run |-> t + every, file |-> "", every |-> every]

IndexOf(store, id) == CHOOSE i \in 1..Len(store) : store[i].id = id
Due(store, id, t) ==
  \E i \in 1..Len(store) : store[i].id = id /\ store[i].run <= t
\* scheduler.remove_job(id); a missing id raises and the raise is passed over.
remove_job(store, id) ==
  IF id \in JobIds(store) THEN RemoveAt(store, IndexOf(store, id)) ELSE store
\* The executor takes a due interval job: its next run is the first run
\* time of the interval later than now (one interval on, when the job is
\* taken at its run time).
Rearm(store, id) ==
  LET every == store[IndexOf(store, id)].every
  IN [store EXCEPT ![IndexOf(store, id)].run =
                      @ + every * ((now - @) \div every + 1)]

\* An add of the daily job that does not look in the store first.
EnsureDailyUnchecked(store, today) ==
  Append(store, DateJob(DailyId, DailyAt(today)))

\* Lines 673-685 (and 699-709): the daily job is added when the store has
\* none, by the reference 'server:_reschedule_daily_job'.
EnsureDaily(store, today) ==
  IF DailyId \in JobIds(store) THEN store
  ELSE Append(store, DateJob(DailyId, DailyAt(today)))

\* Lines 690-697: the retry job, every five minutes, when nothing was added.
EnsureMissed(store, added, t) ==
  IF added = 0 /\ MissedId \notin JobIds(store)
  THEN Append(store, IntervalJob(MissedId, RetryMinutes, t))
  ELSE store

\* Lines 355-364: the wrapper's own add of the daily job.  Its reference is
\* written 'server._reschedule_daily_job', with a dot where lines 655, 682,
\* 694 and 708 have a colon; whether add_job takes it is the library's
\* answer, and a raise is passed over (line 365).
WrapperEnsureDaily(store, cur, add_job) ==
  IF DailyId \in JobIds(store) \/ add_job = "raises" THEN store
  ELSE Append(store, DateJob(DailyId, DailyAt(cur)))

\* A wrapper that never widens the interval.
WidenRetryNever(attempts) == FALSE

\* Line 368: from the sixth attempt for the date on, the retry is widened.
WidenRetry(attempts) == attempts >= WidenAfter

\* Lines 369-375: the retry job is removed and added again hourly, by the
\* reference 'server._missed_scheduler_wrapper'; a raise of add_job leaves
\* the store without a retry job (line 376).
Widen(store, t, add_job) ==
  IF add_job = "raises" THEN remove_job(store, MissedId)
  ELSE Append(remove_job(store, MissedId), IntervalJob(MissedId, HourMinutes, t))

\* Lines 660-711, the body of schedule_today_and_rescheduler on a store:
\* today's play jobs, the daily job, and the retry job when none was added.
TodayAndRescheduler(before, helper) ==
  LET today == DateOf(now)
      store == ScheduleLoop(1, before, today, ComputeTimes(helper),
                            play_history, now)
      added == Len(store) - Len(before)
  IN EnsureMissed(EnsureDaily(store, today), added, now)

NoRecovery == [date |-> 0 - 1, streak |-> 0, last |-> 0 - 1, count |-> 0]

\* schedule_today_and_rescheduler(), called when the leader has started its
\* scheduler (line 1465).
schedule_today_and_rescheduler ==
  /\ scheduler = "none"
  /\ scheduler' = "running"
  /\ \E helper \in HelperOutcomes : jobs' = TodayAndRescheduler(jobs, helper)
  /\ UNCHANGED <<AZAN_LOCK, AZAN_STARTED, PLAYBACK_ACTIVE, SONOS_SNAPSHOT,
                 play_history, now, req, ntrig, broadcasts, confirmed, mon,
                 volume, setup, nsched, lastcall, MISSED_SCHED_ATTEMPTS,
                 recovery, leaderVars, pbVars>>

\* POST /api/scheduler/force-schedule on the leader, lines 742-761: the
\* handler schedules today itself and then calls
\* schedule_today_and_rescheduler, which schedules today once more.
api_force_schedule_today ==
  /\ scheduler = "running"
  /\ nsched < MaxCalls
  /\ nsched' = nsched + 1
  /\ \E first \in HelperOutcomes, second \in HelperOutcomes :
       jobs' = TodayAndRescheduler(
                 ScheduleLoop(1, jobs, DateOf(now), ComputeTimes(first),
                              play_history, now),
                 second)
  /\ UNCHANGED <<AZAN_LOCK, AZAN_STARTED, PLAYBACK_ACTIVE, SONOS_SNAPSHOT,
                 play_history, now, req, ntrig, broadcasts, confirmed, mon,
                 volume, setup, lastcall, recoverVars, leaderVars, pbVars>>

\* The retry job comes due: _missed_scheduler_wrapper().  recovery records
\* the firing: its time, what it added, and how many firings in a row for
\* this date added nothing.
_missed_scheduler_wrapper ==
  /\ scheduler = "running"
  /\ Due(jobs, MissedId, now)
  /\ \E helper \in HelperOutcomes, add_job \in AddJobOutcomes :
       LET cur == DateOf(now)
           attempts == MISSED_SCHED_ATTEMPTS[cur] + 1
           armed == Rearm(jobs, MissedId)
           store == ScheduleLoop(1, armed, cur, ComputeTimes(helper),
                                 play_history, now)
           cnt == Len(store) - Len(armed)
       IN /\ MISSED_SCHED_ATTEMPTS' =
               [MISSED_SCHED_ATTEMPTS EXCEPT ![cur] = attempts]
          /\ jobs' =
               IF cnt > 0
               THEN WrapperEnsureDaily(remove_job(store, MissedId), cur, add_job)
               ELSE IF WidenRetry(attempts) THEN Widen(store, now, add_job)
               ELSE store
          /\ recovery' =
               [date |-> cur, last |-> now, count |-> cnt,
                streak |-> IF cnt > 0 THEN 0
                           ELSE IF recovery.date = cur
                           THEN recovery.streak + 1 ELSE 1]
  /\ UNCHANGED <<AZAN_LOCK, AZAN_STARTED, PLAYBACK_ACTIVE, SONOS_SNAPSHOT,
                 play_history, now, req, ntrig, broadcasts, confirmed, mon,
                 volume, setup, nsched, lastcall, scheduler, leaderVars,
                 pbVars>>

\* The daily job comes due: _reschedule_daily_job().  The DateTrigger job
\* has run and leaves the store; the wrapper schedules the current date.
_reschedule_daily_job ==
  /\ scheduler = "running"
  /\ Due(jobs, DailyId, now)
  /\ \E helper \in HelperOutcomes :
       jobs' = ScheduleLoop(1, remove_job(jobs, DailyId), DateOf(now),
                            ComputeTimes(helper), play_history, now)
  /\ UNCHANGED <<AZAN_LOCK, AZAN_STARTED, PLAYBACK_ACTIVE, SONOS_SNAPSHOT,
                 play_history, now, req, ntrig, broadcasts, confirmed, mon,
                 volume, setup, nsched, lastcall, recoverVars, leaderVars,
                 pbVars>>

\* Time passes to the next run time of the store when no job is due.
NextRun(store) ==
  CHOOSE t \in {store[i].run : i \in 1..Len(store)} :
    \A i \in 1..Len(store) : t <= store[i].run
Advance ==
  /\ jobs # <<>>
  /\ NextRun(jobs) > now
  /\ NextRun(jobs) <= Horizon
  /\ now' = NextRun(jobs)
  /\ UNCHANGED <<AZAN_LOCK, AZAN_STARTED, PLAYBACK_ACTIVE, SONOS_SNAPSHOT,
                 play_history, req, ntrig, broadcasts, confirmed, mon, volume,
                 setup, schedVars, leaderVars, pbVars>>

\* The instants at which the store is observed when the force-schedule
\* endpoint is in play: the six retries after a start at 12:30, the asr
\* job, the daily job and an hour after it.  Time passes from one to the
\* next once the due jobs have run.
StoreClock ==
  {DateTime(0, <<12, 35>>), DateTime(0, <<12, 40>>), DateTime(0, <<12, 45>>),
   DateTime(0, <<12, 50>>), DateTime(0, <<12, 55>>), DateTime(0, <<13, 0>>),
   DateTime(0, <<15, 46>>), DateTime(1, <<0, 5>>), DateTime(1, <<1, 5>>)}
TickStore ==
  /\ \A i \in 1..Len(jobs) : jobs[i].run > now
  /\ \E t \in StoreClock :
       /\ t > now
       /\ \A u \in StoreClock : u > now => t <= u
       /\ now' = t
  /\ UNCHANGED <<AZAN_LOCK, AZAN_STARTED, PLAYBACK_ACTIVE, SONOS_SNAPSHOT,
                 play_history, req, ntrig, broadcasts, confirmed, mon, volume,
                 setup, schedVars, leaderVars, pbVars>>

\* ----------------------------------------------------------- leader lock
Procs == 1..MaxProcs
NewProc == [pc |-> "boot", scheduler |-> FALSE, spawns |-> 0,
            instances |-> 0, mains |-> 0]

\* Lines 1444-1451: open the lock file and try the non-blocking flock; a
\* worker that finds it held closes its file and starts nothing.
TryLock(p) ==
  /\ proc[p].pc = "boot"
  /\ IF flock = 0
     THEN /\ flock' = p
          /\ proc' = [proc EXCEPT ![p].pc = "owner"]
     ELSE /\ proc' = [proc EXCEPT ![p].pc = "returned"]
          /\ UNCHANGED flock
  /\ UNCHANGED <<AZAN_LOCK, AZAN_STARTED, PLAYBACK_ACTIVE, SONOS_SNAPSHOT,
                 play_history, now, req, ntrig, broadcasts, confirmed, mon,
                 volume, setup, schedVars, pbVars>>

\* Lines 1452-1471: the lock owner starts its scheduler and installs the
\* jobs (or fails to), and the function returns.
StartScheduler(p) ==
  /\ proc[p].pc = "owner"
  /\ \E started \in BOOLEAN :
       proc' = [proc EXCEPT ![p].pc = "returned",
                            ![p].scheduler = proc[p].scheduler \/ started,
                            ![p].instances = IF started THEN @ + 1 ELSE @]
  /\ UNCHANGED <<AZAN_LOCK, AZAN_STARTED, PLAYBACK_ACTIVE, SONOS_SNAPSHOT,
                 play_history, now, req, ntrig, broadcasts, confirmed, mon,
                 volume, setup, schedVars, flock, pbVars>>

\* Line 1444: fd is a local of the function; once the function has returned
\* nothing refers to the file object, and closing it drops the flock.
CollectFd(p) ==
  /\ proc[p].pc = "returned"
  /\ flock = p
  /\ flock' = 0
  /\ UNCHANGED <<AZAN_LOCK, AZAN_STARTED, PLAYBACK_ACTIVE, SONOS_SNAPSHOT,
                 play_history, now, req, ntrig, broadcasts, confirmed, mon,
                 volume, setup, schedVars, proc, pbVars>>

\* scheduler_runner.main(), lines 29-31 of scripts/scheduler_runner.py: the
\* process that has imported server, and so has run the call of line 1474,
\* calls _try_start_scheduler_with_lock once more.
RunnerMain(p) ==
  /\ proc[p].pc = "returned"
  /\ proc[p].mains = 0
  /\ proc' = [proc EXCEPT ![p].pc = "boot", ![p].mains = 1]
  /\ UNCHANGED <<AZAN_LOCK, AZAN_STARTED, PLAYBACK_ACTIVE, SONOS_SNAPSHOT,
                 play_history, now, req, ntrig, broadcasts, confirmed, mon,
                 volume, setup, schedVars, flock, pbVars>>

\* A worker process exits: its scheduler thread and its open files go.
WorkerExit(p) ==
  /\ proc[p].pc \in {"owner", "returned"}
  /\ proc' = [proc EXCEPT ![p].pc = "dead", ![p].scheduler = FALSE,
                          ![p].instances = 0, ![p].mains = 0]
  /\ flock' = IF flock = p THEN 0 ELSE flock
  /\ UNCHANGED <<AZAN_LOCK, AZAN_STARTED, PLAYBACK_ACTIVE, SONOS_SNAPSHOT,
                 play_history, now, req, ntrig, broadcasts, confirmed, mon,
                 volume, setup, schedVars, pbVars>>

\* The master replaces a dead worker: the module is imported again.
WorkerRespawn(p) ==
  /\ proc[p].pc = "dead"
  /\ proc[p].spawns < MaxSpawns
  /\ proc' = [proc EXCEPT ![p].pc = "boot", ![p].spawns = proc[p].spawns + 1]
  /\ UNCHANGED <<AZAN_LOCK, AZAN_STARTED, PLAYBACK_ACTIVE, SONOS_SNAPSHOT,
                 play_history, now, req, ntrig, broadcasts, confirmed, mon,
                 volume, setup, schedVars, flock, pbVars>>

vars == <<AZAN_LOCK, AZAN_STARTED, PLAYBACK_ACTIVE, SONOS_SNAPSHOT,
          play_history, now, req, ntrig, broadcasts, confirmed, mon, volume, setup,
          schedVars, leaderVars, pbVars>>

StartOn(h, store) ==
  /\ AZAN_LOCK = FALSE
  /\ AZAN_STARTED = FALSE
  /\ PLAYBACK_ACTIVE = FALSE
  /\ SONOS_SNAPSHOT = <<>>
  /\ play_history = h
  /\ now = DateTime(0, <<12, 30>>)
  /\ req = [r \in Req |-> IdleReq]
  /\ ntrig = 0
  /\ broadcasts = {}
  /\ confirmed = {}
  /\ mon = [r \in Req |-> IdleMon]
  /\ volume = [d \in Speakers |-> PriorVolume]
  /\ jobs = store
  /\ nsched = 0
  /\ lastcall = NoCall
  /\ proc = [p \in Procs |-> NewProc]
  /\ flock = 0
  /\ MISSED_SCHED_ATTEMPTS = [d \in Days |-> 0]
  /\ recovery = NoRecovery
  /\ pb = NoPb
  /\ transport = NoStop

StartWith(h) == StartOn(h, <<>>)
Start == StartWith(<<>>)

Init == Start /\ scheduler = "running" /\ setup = [overlap |-> TRUE, answers |-> "full"]

Next ==
  \/ \E r \in Req : PlayInvoke(r)
  \/ \E r \in Req : PlayControl(r)
  \/ api_simulate_play
  \/ api_test_play
  \/ Tick

Spec == Init /\ [][Next]_vars

\* The direct speaker-control path of play_audio and its monitor thread.
InitSession == Start /\ scheduler = "running" /\ setup = [overlap |-> FALSE, answers |-> "full"]
InitDirect == Start /\ scheduler = "running" /\ setup = [overlap |-> TRUE, answers |-> "calm"]

NextSession ==
  \/ \E r \in Req : PlayInvoke(r)
  \/ \E r \in Req : PlayFallThrough(r)
  \/ \E r \in Req : PlayDiscover(r)
  \/ \E r \in Req : PlayCoordInfo(r)
  \/ \E r \in Req : PlaySnapshot(r)
  \/ \E r \in Req : PlayStart(r)
  \/ \E r \in Req : PlayVerify(r)
  \/ \E r \in Req : PlayConfirm(r)
  \/ \E r \in Req : MonitorPoll(r)
  \/ \E r \in Req : MonitorRestore(r)
  \/ \E r \in Req : MonitorEnd(r)

NextDirect == NextSession

\* The session path with one worker thread and the ledger test endpoints.
InitLedger == Start /\ scheduler = "running" /\ setup = [overlap |-> FALSE, answers |-> "calm"]
NextLedger == NextSession \/ api_simulate_play \/ api_test_play
SpecLedger == InitLedger /\ [][NextLedger]_vars

\* The ledger alone: the server starts on a table that holds up to
\* HistoryKeep rows and the test endpoints append to it.
InitPrune ==
  \E n \in 0..HistoryKeep :
    /\ StartWith(StoredLedger(n))
    /\ scheduler = "running"
    /\ setup = [overlap |-> FALSE, answers |-> "calm"]
NextPrune == api_simulate_play \/ api_test_play
SpecPrune == InitPrune /\ [][NextPrune]_vars

\* The scheduler: job installation, due jobs and the requests they post.
NextSched ==
  \/ \E d \in Dates : schedule_prayers_for_date(d)
  \/ \E i \in 1..Len(jobs) : JobFire(i)
  \/ \E r \in Req : PlayControl(r)
  \/ api_simulate_play
  \/ Tick
SpecSched == Init /\ [][NextSched]_vars

\* The worker processes and the leader lock.
NextLeader ==
  \/ \E p \in Procs : TryLock(p)
  \/ \E p \in Procs : StartScheduler(p)
  \/ \E p \in Procs : CollectFd(p)
  \/ \E p \in Procs : WorkerExit(p)
  \/ \E p \in Procs : WorkerRespawn(p)
SpecLeader == Init /\ [][NextLeader]_vars

\* The dedicated scheduler process beside the workers: a process may go on
\* from its import of server to scheduler_runner.main().
NextRunner == NextLeader \/ \E p \in Procs : RunnerMain(p)
SpecRunner == Init /\ [][NextRunner]_vars

\* The life of the job store from the leader's start: the play jobs, the
\* daily job and the retry job, each run at its time.
InitJobs ==
  Start /\ scheduler = "none" /\ setup = [overlap |-> FALSE, answers |-> "calm"]
NextJobs ==
  \/ schedule_today_and_rescheduler
  \/ _missed_scheduler_wrapper
  \/ _reschedule_daily_job
  \/ \E i \in 1..Len(jobs) : JobFire(i)
  \/ \E r \in Req : PlayControl(r)
  \/ Advance
SpecJobs == InitJobs /\ [][NextJobs]_vars

\* The job store with the force-schedule endpoint, observed at the
\* instants of StoreClock.
NextStore ==
  \/ schedule_today_and_rescheduler
  \/ api_force_schedule_today
  \/ _missed_scheduler_wrapper
  \/ _reschedule_daily_job
  \/ \E i \in 1..Len(jobs) : JobFire(i)
  \/ \E r \in Req : PlayControl(r)
  \/ TickStore
SpecStore == InitJobs /\ [][NextStore]_vars

\* A restart of the server on the job store its previous run persisted
\* (lines 1404-1412): that run had scheduled today and the daily job.
InitRestart ==
  \E helper \in {"times", "fails"} :
    /\ StartOn(<<>>, TodayAndRescheduler(<<>>, helper))
    /\ scheduler = "none"
    /\ setup = [overlap |-> FALSE, answers |-> "calm"]
NextRestart ==
  \/ schedule_today_and_rescheduler
  \/ _missed_scheduler_wrapper
  \/ _reschedule_daily_job
  \/ \E i \in 1..Len(jobs) : JobFire(i)
  \/ \E r \in Req : PlayControl(r)
  \/ TickStore
\* The executor at work: the startup call is made, a due play or daily job
\* is run, a posted request is answered and the clock moves on; and the
\* recovery job does not stay due for ever: the executor runs it.
RestartSteps ==
  \/ schedule_today_and_rescheduler
  \/ _reschedule_daily_job
  \/ \E i \in 1..Len(jobs) : JobFire(i)
  \/ \E r \in Req : PlayControl(r)
  \/ TickStore
RecoveryJobRun ==
  []<>(~(scheduler = "running" /\ Due(jobs, MissedId, now)))
FairRestart == WF_vars(RestartSteps) /\ RecoveryJobRun
SpecRestart == InitRestart /\ [][NextRestart]_vars /\ FairRestart

\* The operator's stop command beside a session: the server starts, fills
\* its job store, serves play requests on the direct path and stop commands.
NextStop ==
  \/ schedule_today_and_rescheduler
  \/ NextSession
  \/ api_transport_stop
SpecStop == InitJobs /\ [][NextStop]_vars

\* The helpers of playback.py.
NextPlayback ==
  \/ group_zones
  \/ start_monitor
  \/ monitor_playback
SpecPlayback == Init /\ [][NextPlayback]_vars

\* The session path with one worker thread and one answer at each step of
\* the start, the monitor watched: every answer to its polls is drawn and
\* recorded.
InitWatch ==
  Start /\ scheduler = "running" /\ setup = [overlap |-> FALSE, answers |-> "watch"]
NextWatch == NextSession
SpecWatch == InitWatch /\ [][NextWatch]_vars

\* The same with the monitor thread running: a monitor that can take a
\* step (a pass of its loop, the restoration of a speaker, its end) does.
FairMonitor ==
  \A r \in Req :
    WF_vars(MonitorPoll(r) \/ MonitorRestore(r) \/ MonitorEnd(r))
SpecWatchFair == SpecWatch /\ FairMonitor

SpecSession == InitSession /\ [][NextSession]_vars
SpecDirect == InitDirect /\ [][NextDirect]_vars

\* ================================================================ claims
\* A request thread is inside a session: it has passed the lock check and
\* is starting the playback (through the control services or on the direct
\* path), or its monitor thread is in the monitoring loop.
InSession(r) ==
  \/ req[r].pc \in {"control", "discover", "coordinfo", "snapshot", "play",
                    "verify", "confirm"}
  \/ mon[r].pc = "poll"

\* C1: a scheduled trigger and a manual trigger for the same event on the
\* same date never both issue a play command to the speakers.
OneBroadcastPerEvent ==
  \A b1, b2 \in broadcasts :
    (b1.date = b2.date /\ b1.key = b2.key) => b1.origin = b2.origin

\* C2: a trigger for an event whose on-time marker is already in the ledger
\* returns 'skipped' and makes no speaker call.
PlayedEventIsSkipped ==
  \A r \in Req :
    (req[r].pc = "done" /\ req[r].dup) =>
      (req[r].result = "skipped" /\ req[r].calls = 0)

\* C3: at most one playback session is active: never two triggers that have
\* both passed the lock check and are snapshotting, starting or monitoring.
AtMostOneSession == Cardinality({r \in Req : InSession(r)}) <= 1

\* C4: while a session's monitoring loop runs, a step of any other trigger
\* leaves SONOS_SNAPSHOT and play_history unchanged, and a trigger that
\* arrives returns 'rejected'.
MonitoringShutsOutTriggers ==
  [][\A r \in Req :
       ((\E r2 \in Req \ {r} : mon[r2].pc = "poll") /\ req'[r] # req[r]) =>
         /\ SONOS_SNAPSHOT' = SONOS_SNAPSHOT
         /\ play_history' = play_history
         /\ (req[r].pc \in {"idle", "done"} => req'[r].result = "rejected")]_vars

\* C5: among the worker processes at most one live process at a time has
\* acquired the leader lock and started a scheduler.
OneLeader == Cardinality({p \in Procs : proc[p].scheduler}) <= 1

\* C6: a call of schedule_prayers_for_date that repeats the call before it
\* (same date, same answer of the time source, ledger and job store
\* untouched in between) installs nothing and leaves the same job ids, and
\* the job store never holds two jobs with the id of one (date, event).
SchedulingIdempotent ==
  /\ lastcall.repeat =>
       (lastcall.ids = lastcall.before /\ lastcall.scheduled_count = 0)
  /\ \A i, j \in 1..Len(jobs) : jobs[i].id = jobs[j].id => i = j

SchedulingRepeated ==
  /\ lastcall.repeat
  /\ nsched >= 2
  /\ lastcall.ids # {}
  /\ Len(jobs) > 0

\* C7 as stated: every marker of the ledger is preceded by a confirmed start
\* of its file.
MarkerOnlyAfterConfirmedStart ==
  \A i \in 1..Len(play_history) : play_history[i].file \in confirmed

\* C7: play_audio appends a marker only in the step in which the coordinator
\* has reported the azan URI or the state PLAYING, and the marker is the
\* started file at the current time; every other change of the ledger is an
\* append by a test endpoint (api_simulate_play, api_test_play), a step in
\* which no request and no monitor moves.
MarkerWriters ==
  [][play_history' # play_history =>
       \/ /\ req' = req
          /\ mon' = mon
          /\ \E fname \in Files, when \in SimTimes \cup {now} :
               play_history' = append_play_history_sql(play_history, fname, when)
       \/ \E r \in Req :
            /\ req[r].pc = "confirm"
            /\ \/ req[r].post.uri = AudioUrl(req[r].file)
               \/ req[r].post.state = "PLAYING"
            /\ req'[r].result = "started"
            /\ play_history' =
                 append_play_history_sql(play_history, req[r].file, now)]_vars

MarkerAfterConfirmedStart ==
  \E r \in Req :
    /\ req[r].pc = "done"
    /\ req[r].result = "started"
    /\ mon[r].pc = "poll"
    /\ req[r].file \in confirmed
    /\ \E i \in 1..Len(play_history) : play_history[i].file = req[r].file

\* C8: every trigger that returns 'started' has written a marker for the
\* played file before it returns.
StartedWroteMarker ==
  \A r \in Req :
    (req[r].pc = "done" /\ req[r].result = "started") =>
      \E i \in 1..Len(play_history) : play_history[i].file = req[r].file

\* C9: within one session of monitor_playback at most one resume sequence
\* is performed, however many times the reported URI diverges.
SingleResume == \A r \in Req : mon[r].resumes <= 1

SecondDivergence ==
  \E r \in Req : mon[r].divergences >= 2 /\ mon[r].resumes <= 1

\* The calls of a restoration: the play calls, the greatest of a set.
PlayIdx(calls) == {i \in 1..Len(calls) : calls[i].op = "play_uri"}
Greatest(S) == CHOOSE x \in S : \A y \in S : y <= x
NoSeek(calls) == \A i \in 1..Len(calls) : calls[i].op # "seek"
SeekFollows(calls, i, P) ==
  /\ i < Len(calls)
  /\ calls[i + 1].op = "seek"
  /\ calls[i + 1].position = P

\* The restorations the claim is about: the device's snapshot has state
\* PLAYING and a URI.
RestoredPlaying(l) ==
  l.dev # "" /\ l.snap.set /\ l.snap.state = "PLAYING" /\ l.snap.uri # ""

\* C10 as stated: a local URI with position P is re-played and then a seek
\* to P is attempted; a stream URI is re-played and no seek is issued.
RestoreReplaysThenSeeks ==
  \A r \in Req :
    LET l == mon[r].last IN
    RestoredPlaying(l) =>
      /\ PlayIdx(l.calls) # {}
      /\ l.calls[Greatest(PlayIdx(l.calls))].uri = l.snap.uri
      /\ IF IsStream(l.snap.uri) THEN NoSeek(l.calls)
         ELSE Len(l.snap.position) = 3 =>
                SeekFollows(l.calls, Greatest(PlayIdx(l.calls)), l.snap.position)

\* C10: a local URI with position P is re-played and, when that play call
\* did not raise, a seek to P is attempted next; when it raised no seek is
\* issued; a stream URI is re-played and no seek is issued.
RestoreReplaysThenSeeksIfPlayed ==
  \A r \in Req :
    LET l == mon[r].last IN
    RestoredPlaying(l) =>
      /\ PlayIdx(l.calls) # {}
      /\ l.calls[Greatest(PlayIdx(l.calls))].uri = l.snap.uri
      /\ IF IsStream(l.snap.uri) THEN NoSeek(l.calls)
         ELSE Len(l.snap.position) = 3 =>
                IF l.calls[Greatest(PlayIdx(l.calls))].ok
                THEN SeekFollows(l.calls, Greatest(PlayIdx(l.calls)),
                                 l.snap.position)
                ELSE NoSeek(l.calls)

RestoredLocalWithSeek ==
  \E r \in Req :
    LET l == mon[r].last IN
    /\ RestoredPlaying(l)
    /\ ~IsStream(l.snap.uri)
    /\ Len(l.snap.position) = 3
    /\ ~NoSeek(l.calls)

DailyJobReinstalled ==
  [][(/\ Due(jobs, DailyId, now)
      /\ \A i \in 1..Len(jobs') :
           jobs'[i].id = DailyId => jobs'[i].run > now)
     => \E i \in 1..Len(jobs') :
          /\ jobs'[i].id = DailyId
          /\ jobs'[i].run = DailyAt(DateOf(now))]_vars

NoDevicesNoSession ==
  [][\A r \in Req :
       (req[r].pc = "discover" /\ req'[r].pc = "done")
       => /\ req'[r].result = "failed"
          /\ ~AZAN_LOCK /\ ~AZAN_LOCK'
          /\ SONOS_SNAPSHOT' = SONOS_SNAPSHOT
          /\ broadcasts' = broadcasts
          /\ play_history' = play_history
          /\ PLAYBACK_ACTIVE' = PLAYBACK_ACTIVE
          /\ mon' = mon]_vars
\* The first trigger has returned 'failed' from the discovery: the snapshot
\* is still the one of the process start.
ReturnedForNoDevices ==
  \E r \in Req :
    /\ req[r].pc = "done"
    /\ req[r].result = "failed"
    /\ req[r].calls = 1
    /\ SONOS_SNAPSHOT = <<>>
    /\ ~AZAN_LOCK

\* C19: a trigger leaves the snapshot loop for the play command only when
\* some device was snapshotted; when every device failed it returns
\* 'failed' with the lock released and no play command issued.
AllSnapshotsFailedAborts ==
  [][\A r \in Req :
       /\ (req[r].pc = "snapshot" /\ req'[r].pc = "play")
          => req'[r].error_count < Len(req[r].speakers)
       /\ (req[r].pc = "snapshot" /\ req'[r].pc = "done")
          => /\ req'[r].result = "failed"
             /\ ~AZAN_LOCK'
             /\ broadcasts' = broadcasts
             /\ play_history' = play_history
             /\ mon' = mon]_vars
\* The first trigger found devices, took the lock, snapshotted none of
\* them and has returned 'failed'.
ReturnedForNoSnapshot ==
  \E r \in Req :
    /\ ntrig = 1
    /\ req[r].pc = "done"
    /\ req[r].result = "failed"
    /\ SONOS_SNAPSHOT = EmptySnapshot
    /\ ~AZAN_LOCK
    /\ broadcasts = {}

\* C12: when the play command raises, the verification query raises, or
\* the coordinator reports neither the azan URI nor PLAYING, the trigger
\* returns 'failed' with the lock released, and that step writes no played
\* marker, starts no monitor and issues no play command.
UnconfirmedStartFails ==
  [][\A r \in Req :
       (\/ req[r].pc \in {"play", "verify"} /\ req'[r].pc = "done"
        \/ /\ req[r].pc = "confirm"
           /\ req'[r] # req[r]
           /\ req[r].post.uri # AudioUrl(req[r].file)
           /\ req[r].post.state # "PLAYING")
       => /\ req'[r].pc = "done"
          /\ req'[r].result = "failed"
          /\ ~AZAN_LOCK'
          /\ play_history' = play_history
          /\ confirmed' = confirmed
          /\ mon' = mon
          /\ ~PLAYBACK_ACTIVE'
          /\ broadcasts' = broadcasts]_vars
\* The first trigger issued its play command, the start was not confirmed,
\* and it has returned 'failed': lock clear, ledger empty, no monitor.
ReturnedForUnconfirmedStart ==
  \E r \in Req :
    /\ ntrig = 1
    /\ req[r].pc = "done"
    /\ req[r].result = "failed"
    /\ broadcasts # {}
    /\ ~AZAN_LOCK
    /\ play_history = <<>>
    /\ mon[r].pc = "off"

\* C17: in a session whose start was confirmed, the pass of the monitoring
\* loop that first sees another URI on the coordinator, with a last
\* position of the azan known and past 0:00:00, performs one resume.
FirstDivergenceResumes ==
  [][\A r \in Req :
       (/\ mon[r].pc = "poll"
        /\ mon[r].divergences = 0
        /\ mon'[r].divergences = 1
        /\ mon[r].last_azan_position # NoPosition
        /\ mon[r].last_azan_position # <<0, 0, 0>>)
       => mon'[r].resumes = 1]_vars

\* C18: while the monitor thread is restoring the snapshotted devices the
\* lock is held.
LockHeldDuringRestore ==
  \A r \in Req : mon[r].pc = "restore" => AZAN_LOCK

\* C15: group_zones on a non-empty list has asked every speaker but the
\* first, and no other, to join the first, whichever joins raised, and
\* returns the first speaker's name; on an empty list it returns None and
\* has asked nothing.
GroupZonesJoinsAll ==
  (pb.op = "group_zones" /\ pb.pc = "grouped")
  => IF pb.speakers = <<>>
     THEN pb.result = None /\ pb.calls = <<>>
     ELSE /\ pb.result = player_name(pb.speakers[1])
          /\ Len(pb.calls) = Len(pb.speakers) - 1
          /\ \A i \in 2..Len(pb.speakers) :
               \E j \in 1..Len(pb.calls) :
                 /\ pb.calls[j].op = "join"
                 /\ pb.calls[j].dev = pb.speakers[i]
                 /\ pb.calls[j].to = pb.speakers[1]
\* group_zones has returned for three speakers, the join of the second
\* raised and the third was asked to join all the same.
GroupedPastARaise ==
  /\ pb.op = "group_zones" /\ pb.pc = "grouped"
  /\ Len(pb.speakers) = 3
  /\ pb.speakers[2] \in pb.raising
  /\ \E j \in 1..Len(pb.calls) :
       pb.calls[j].dev = pb.speakers[3] /\ pb.calls[j].ok

AllAskedToUnjoin ==
  \A i \in 2..Len(pb.speakers) :
    \E j \in 1..Len(pb.calls) :
      pb.calls[j].op = "unjoin" /\ pb.calls[j].dev = pb.speakers[i]
DailyFiringSchedulesNextDay ==
  [][(/\ Due(jobs, DailyId, now)
      /\ \A i \in 1..Len(jobs') :
           jobs'[i].id = DailyId => jobs'[i].run > now
      /\ \E i \in 1..Len(jobs') :
           /\ jobs'[i].id[1] = "azan"
           /\ jobs'[i].id[2] = DateOf(now)
           /\ jobs'[i].id \notin JobIds(jobs))
     => \E i \in 1..Len(jobs') :
          /\ jobs'[i].id[1] = "azan"
          /\ jobs'[i].id[2] = DateOf(now) + 1]_vars

\* C22: the job store never holds two jobs with the id of the daily job,
\* nor two with the id of the retry job.
Count(store, id) == Cardinality({i \in 1..Len(store) : store[i].id = id})
WrapperJobsUnique ==
  Count(jobs, DailyId) <= 1 /\ Count(jobs, MissedId) <= 1
\* Both jobs are in the store after a forced scheduling and a firing of the
\* retry job.
BothWrapperJobsStored ==
  /\ nsched > 0
  /\ recovery.date >= 0
  /\ Count(jobs, DailyId) = 1
  /\ Count(jobs, MissedId) = 1

\* C23: a call of schedule_prayers_for_date adds no play job whose time is
\* at or before the current time and none for an event with an on-time
\* played marker, and returns the number of play jobs it added.
InstalledJobs == {i \in 1..Len(jobs') : jobs'[i].id \notin JobIds(jobs)}
InstallsOnlyFutureUnplayed ==
  [][nsched' # nsched
     => /\ \A i \in InstalledJobs :
             /\ jobs'[i].run > now
             /\ ~PlayedOnTime(play_history, jobs'[i].run, jobs'[i].id[3])
        /\ lastcall'.scheduled_count = Cardinality(InstalledJobs)]_vars
\* The last call added a job and passed over both an event already past
\* and an event with an on-time marker.
InstalledPastSkipped ==
  /\ lastcall.scheduled_count > 0
  /\ \E key \in Keys :
       LET tstr == ComputeTimes(lastcall.helper)[key] IN
       /\ tstr # NoTime
       /\ PlayedOnTime(lastcall.hist, DateTime(lastcall.date, tstr), key)
       /\ JobId(lastcall.date, key) \notin lastcall.ids
  /\ \E key \in Keys :
       LET tstr == ComputeTimes(lastcall.helper)[key] IN
       /\ tstr # NoTime
       /\ DateTime(lastcall.date, tstr) <= DateTime(0, <<12, 30>>)
       /\ JobId(lastcall.date, key) \notin lastcall.ids

\* C24: a call of schedule_prayers_for_date that adds a play job leaves a
\* prepare job for the same date and event in the store, due strictly
\* before the play job.
PrepareJobWithEveryPlayJob ==
  [][nsched' # nsched
     => \A i \in InstalledJobs :
          jobs'[i].id[1] = "azan"
          => \E j \in 1..Len(jobs') :
               /\ jobs'[j].id[1] = "prepare"
               /\ jobs'[j].id[2] = jobs'[i].id[2]
               /\ jobs'[j].id[3] = jobs'[i].id[3]
               /\ jobs'[j].run < jobs'[i].run]_vars

\* C25: after a call of schedule_prayers_for_date, an event of the date
\* whose time is in the future and from which every played marker is more
\* than five minutes away has its play job in the store.
FarFrom(h, scheduled_dt) ==
  \A i \in 1..Len(h) :
    h[i].ts - scheduled_dt > 5 \/ scheduled_dt - h[i].ts > 5
FarMarkersDoNotSatisfy ==
  [][nsched' # nsched
     => \A key \in Keys :
          LET tstr == ComputeTimes(lastcall'.helper)[key]
              scheduled_dt == DateTime(lastcall'.date, tstr)
          IN (/\ tstr # NoTime
              /\ scheduled_dt > now
              /\ FarFrom(play_history, scheduled_dt))
             => JobId(lastcall'.date, key) \in JobIds(jobs')]_vars
\* The last call installed the asr job of day 0 although the ledger held a
\* marker for azan.mp3, more than five minutes from the asr time.
InstalledDespiteFarMarker ==
  /\ lastcall.date = 0
  /\ JobId(0, "asr") \in lastcall.ids \ lastcall.before
  /\ \E i \in 1..Len(lastcall.hist) :
       /\ lastcall.hist[i].file = "azan.mp3"
       /\ lastcall.hist[i].ts < DateTime(0, <<15, 0>>)

\* C26: when the leader's start or a firing of the daily job leaves the
\* store without any play job of today, the retry job is in the store
\* afterwards.
NoPlayJobToday(store, d) ==
  \A i \in 1..Len(store) : ~(store[i].id[1] = "azan" /\ store[i].id[2] = d)
FailedSchedulingStartsRecovery ==
  [][(/\ \/ scheduler = "none" /\ scheduler' = "running"
         \/ /\ Due(jobs, DailyId, now)
            /\ \A i \in 1..Len(jobs') :
                 jobs'[i].id = DailyId => jobs'[i].run > now
      /\ NoPlayJobToday(jobs', DateOf(now)))
     => MissedId \in JobIds(jobs')]_vars

\* C27: a call of schedule_prayers_for_date in which the helper's answer
\* parses but names no event time schedules from the praytimes
\* computation, and a call in which the helper answers with times
\* schedules from the helper's.
SecondaryWhenPrimaryUnusable ==
  [][nsched' # nsched
     => /\ lastcall'.helper = "empty"
           => jobs' = ScheduleLoop(1, jobs, lastcall'.date, PrayTimes,
                                   play_history, now)
        /\ lastcall'.helper = "times"
           => jobs' = ScheduleLoop(1, jobs, lastcall'.date, NodeTimes,
                                   play_history, now)]_vars

\* C28: when the monitoring loop was left by the timeout with the
\* coordinator last seen on the target URI, the restoration of the
\* coordinator includes a stop.
TimeoutStopsCoordinator ==
  [][\A r \in Req :
       (/\ mon[r].pc = "restore"
        /\ mon[r].left = "timeout"
        /\ mon[r].seen.uri = mon[r].audio_url
        /\ mon'[r].idx = mon[r].idx + 1
        /\ mon'[r].last.dev = mon[r].coordinator
        /\ mon'[r].last.snap.set)
       => \E j \in 1..Len(mon'[r].last.calls) :
            mon'[r].last.calls[j].op = "stop"]_vars

\* C29: a pass of the loop that is answered with a state other than
\* PLAYING or TRANSITIONING on the target URI, or with a position at or
\* beyond the duration, leaves the loop; and the loop is left as ended
\* only on such an answer.
EndAnswer(seen, audio_url) ==
  /\ seen.uri = audio_url
  /\ \/ seen.state \notin {"PLAYING", "TRANSITIONING"}
     \/ Len(seen.position) = 3
        /\ Seconds(seen.position) >= Seconds(<<0, 2, 10>>)
LoopLeftAtExpectedEnd ==
  [][\A r \in Req :
       (/\ mon[r].pc = "poll"
        /\ mon'[r] # mon[r]
        /\ mon[r].elapsed < MonitorDuration
        /\ mon'[r].seen.state # "RAISES")
       => /\ EndAnswer(mon'[r].seen, mon[r].audio_url)
             => mon'[r].pc = "restore"
          /\ mon'[r].left = "end"
             => EndAnswer(mon'[r].seen, mon[r].audio_url)]_vars

\* C30: a snapshot entry written for a device records the transport state
\* that device itself was in before the session, and at restoration a
\* device is told to play only if it was itself playing before the session.
SnapshotIsTheDevicesOwn ==
  [][\A r \in Req :
       /\ (req[r].pc = "snapshot" /\ req'[r] # req[r])
          => LET s == req[r].speakers[req[r].idx]
             IN  SONOS_SNAPSHOT'[s] # SONOS_SNAPSHOT[s]
                 => SONOS_SNAPSHOT'[s].state = req[r].own[s]
       /\ (mon[r].pc = "restore" /\ mon'[r].idx = mon[r].idx + 1)
          => \A j \in 1..Len(mon'[r].last.calls) :
               mon'[r].last.calls[j].op = "play_uri"
               => mon[r].own[mon'[r].last.dev] = "PLAYING"]_vars

\* C31: a speaker call that fails on one device never ends the step for
\* the others.  A pass of the snapshot loop goes on to the next device
\* whatever happened to this one, the trigger is given up after the last
\* device only when every device failed, and a pass of the restoration
\* goes on to the next device whichever of its calls failed.
SomeCallFailed(calls) == \E j \in 1..Len(calls) : ~calls[j].ok
HoldsSnapshot(r) ==
  \/ req[r].pc \in {"play", "verify", "confirm"}
  \/ mon[r].pc \in {"poll", "restore"}
SnapshotPrivateToSession ==
  [][(\E r \in Req : HoldsSnapshot(r)) => SONOS_SNAPSHOT' = SONOS_SNAPSHOT]_vars

\* C33: an append to the ledger removes only markers older than the
\* retention window of 30 days: every marker younger than the window is
\* still in the ledger, at its place, after the append.
YoungerThanWindow(row, t) == t - row.ts < 30 * 24 * 60
YoungMarkersKept ==
  [][play_history' # play_history =>
       \/ \E i \in 1..Len(play_history) :
            ~YoungerThanWindow(play_history[i], now)
       \/ /\ Len(play_history') = Len(play_history) + 1
          /\ SubSeq(play_history', 1, Len(play_history)) = play_history]_vars

\* C34: a play request that neither the cloud nor the local control
\* service handled goes on into the direct speaker-control path: the
\* control step that does not end in a started playback leads to the
\* discovery of the speakers.
UnhandledRequestGoesDirect ==
  [][\A r \in Req :
       (/\ req[r].pc = "control"
        /\ req'[r] # req[r]
        /\ req'[r].result # "started")
       => req'[r].pc = "discover"]_vars

\* C35: the stop command leaves the lock, the snapshot, the ledger, the
\* job store, the requests and the monitors as they are; when it found
\* speakers it asks the coordinator to stop and then, unless unjoin is
\* false, asks every other speaker found to unjoin, whichever of these
\* calls raised, and with unjoin false it asks nobody to unjoin.
StopCommandIndependent ==
  [][transport' # transport =>
       /\ UNCHANGED <<AZAN_LOCK, AZAN_STARTED, PLAYBACK_ACTIVE, SONOS_SNAPSHOT,
                      play_history, jobs, req, mon, volume>>
       /\ transport'.status = 200 =>
            LET t == transport' IN
            /\ t.calls[1] = StopCall("stop", t.coordinator, t.stopped)
            /\ \A i \in 2..Len(t.calls) : t.calls[i].op = "unjoin"
            /\ \A d \in Members(t.speakers) \ {t.coordinator} :
                 t.do_unjoin <=>
                   \E i \in 2..Len(t.calls) : t.calls[i].dev = d
            /\ ~t.do_unjoin => Len(t.calls) = 1]_vars

\* A stop command during a session, with jobs in the store: the stop
\* raised, so did the first unjoin, and the last speaker was still asked.
StoppedPastFailures ==
  /\ transport.status = 200
  /\ Len(transport.calls) = 3
  /\ ~transport.calls[1].ok
  /\ ~transport.calls[2].ok
  /\ transport.calls[3].ok
  /\ AZAN_LOCK
  /\ jobs # <<>>
  /\ play_history # <<>>
  /\ \E d \in Speakers : SONOS_SNAPSHOT[d].set

\* C36: whenever AZAN_LOCK is held, a play trigger is between taking the
\* lock and returning or a monitor thread is running; a trigger that has
\* returned 'failed' with no monitor running leaves the lock clear.
LockNeverLeaked ==
  AZAN_LOCK =>
    \E r \in Req :
      \/ req[r].pc \in {"coordinfo", "snapshot", "play", "verify", "confirm"}
      \/ mon[r].pc \in {"poll", "restore"}

\* C37: once the store holds a play job for every event of today that is
\* still to come, the missed-recovery job is eventually removed from it.
\* The property is stated from the early afternoon of day 0 on, when the
\* rest of the day's firings of the recovery job are still ahead.
TodayJobsPresent ==
  LET d == DateOf(now)
      remaining == {k \in Keys : DateTime(d, PrayTimes[k]) > now}
  IN  /\ remaining # {}
      /\ \A k \in remaining : JobId(d, k) \in JobIds(jobs)
OneSchedulerPerProcess == \A p \in Procs : proc[p].instances <= 1

\* C39: every session that reaches monitoring terminates.  No pass of the
\* loop begins once the 180 seconds are spent, the thread ends only after
\* the restoration has gone through every speaker of the session, and a
\* monitor that polls has eventually ended with the lock and the
\* playback flag clear, whatever the coordinator answers.
MonitoringTerminates ==
  /\ [](\A r \in Req :
          /\ mon[r].pc = "poll"
             => mon[r].elapsed < MonitorDuration + PassSeconds
          /\ mon[r].pc = "end" => mon[r].idx = Len(mon[r].speakers) + 1)
  /\ \A r \in Req :
       (mon[r].pc = "poll")
         ~> (mon[r].pc = "off" /\ ~AZAN_LOCK /\ ~PLAYBACK_ACTIVE)

\* A session that the timeout ended, the coordinator having answered
\* PLAYING on the azan URL to the last pass, and that has restored its
\* speakers.
TimedOutAndRestored ==
  \E r \in Req :
    /\ mon[r].pc = "end"
    /\ mon[r].left = "timeout"
    /\ mon[r].seen.state = "PLAYING"
    /\ mon[r].seen.uri = mon[r].audio_url
    /\ ~AZAN_LOCK

\* C40: a play trigger that returns 'failed' at or after the snapshot step
\* leaves every speaker at the volume it had before the trigger, which is
\* the volume its snapshot entry recorded.
FailedTriggerRestoresVolume ==
  [][\A r \in Req :
       (/\ req[r].pc \in {"snapshot", "play", "verify", "confirm"}
        /\ req'[r].pc = "done"
        /\ req'[r].result = "failed")
       => \A d \in Members(req[r].speakers) :
            SONOS_SNAPSHOT'[d].set => volume'[d] = SONOS_SNAPSHOT'[d].volume]_vars
====
